---- MODULE Spec2Model ----
(***************************************************************************)
(* Host-presence monitor of src/app/network_scanner.py: the NetworkScanner *)
(* target, its scan strategies, the concurrent ping sweep and the monitor  *)
(* loop.  Python strings are sequences of one-character strings, so that   *)
(* lower(), replace(), split(), join() and the substring test `in` are     *)
(* computed character by character.                                       *)
(***************************************************************************)
EXTENDS Integers, Sequences, FiniteSets, TLC

\* ---------------------------------------------------------------- bounds
\* ticks of the monitor loop that a run of the model follows
MaxTicks == 5
\* hosts of the sweep whose probe is scheduled on its own (the others are
\* scheduled as one group)
NumWatched == 1
\* longest hardware address / IP string drawn as input of the pure functions
MaxMacLen == 3
MaxIpLen == 2
\* longest resolution-cache text drawn as input of IpScanStrategy
MaxArpLen == 4

\* ------------------------------------------------------- Python values
\* Python's None: a value that is no string (strings hold one-character
\* elements only)
None == <<"None">>

\* truthiness of an Optional[str]: None and '' are falsy
Truthy(s) == s # None /\ s # <<>>

\* `a or b` on Optional[str]
Or(a, b) == IF Truthy(a) THEN a ELSE b

UpperCase == <<"A","B","C","D","E","F","G","H","I","J","K","L","M",
               "N","O","P","Q","R","S","T","U","V","W","X","Y","Z">>
LowerCase == <<"a","b","c","d","e","f","g","h","i","j","k","l","m",
               "n","o","p","q","r","s","t","u","v","w","x","y","z">>

\* str.lower() on one character
LowerChar(c) ==
    IF \E i \in 1..Len(UpperCase) : UpperCase[i] = c
    THEN LowerCase[CHOOSE i \in 1..Len(UpperCase) : UpperCase[i] = c]
    ELSE c

\* str.lower()
Lower(s) == [i \in 1..Len(s) |-> LowerChar(s[i])]

\* str.replace(old, new) for one-character old and new
Replace(s, old, new) == [i \in 1..Len(s) |-> IF s[i] = old THEN new ELSE s[i]]

\* the Python test `needle in hay` on two strings
Contains(needle, hay) ==
    \E i \in 0..(Len(hay) - Len(needle)) :
        SubSeq(hay, i + 1, i + Len(needle)) = needle

\* index of the first occurrence of character sep in s, 0 when there is none
FirstIndex(s, sep) ==
    IF \E i \in 1..Len(s) : s[i] = sep
    THEN CHOOSE i \in 1..Len(s) : s[i] = sep /\ \A j \in 1..(i - 1) : s[j] # sep
    ELSE 0

\* str.split(sep) for a one-character sep: the list of the parts
RECURSIVE Split(_, _)
Split(s, sep) ==
    LET k == FirstIndex(s, sep)
    IN  IF k = 0 THEN <<s>>
        ELSE <<SubSeq(s, 1, k - 1)>> \o Split(SubSeq(s, k + 1, Len(s)), sep)

\* sep.join(parts)
RECURSIVE Join(_, _)
Join(parts, sep) ==
    IF Len(parts) = 0 THEN <<>>
    ELSE IF Len(parts) = 1 THEN parts[1]
    ELSE parts[1] \o sep \o Join(Tail(parts), sep)

\* the slice list[0:n]
Slice0(list, n) == SubSeq(list, 1, IF Len(list) < n THEN Len(list) ELSE n)

Digits == <<"0","1","2","3","4","5","6","7","8","9">>

\* str(i) for an integer i >= 0: its decimal digits
RECURSIVE Str(_)
Str(i) == IF i < 10 THEN <<Digits[i + 1]>>
          ELSE Str(i \div 10) \o <<Digits[(i % 10) + 1]>>

\* range(n): the integers 0, 1, ..., n-1, iterated in ascending order
Range(n) == 0..(n - 1)

\* -------------------------------------------------- NetworkScanner target
\* a faulty variant of NetworkScanner_mac: the address is not lower-cased
NetworkScanner_mac_KeepsCase(raw_mac) ==
    IF ~Truthy(raw_mac) THEN None
    ELSE Replace(raw_mac, ":", "-")

\* NetworkScanner.mac: the hardware address, normalised on every access
NetworkScanner_mac(raw_mac) ==
    IF ~Truthy(raw_mac) THEN None
    ELSE Replace(Lower(raw_mac), ":", "-")

\* NetworkScanner.prefix: the first three octets of the IP and a trailing dot
NetworkScanner_prefix(target_ip) ==
    IF Truthy(target_ip)
    THEN Join(Slice0(Split(target_ip, "."), 3), <<".">>) \o <<".">>
    ELSE <<>>

\* the end of the host range both sweeps enumerate: range(255)
RangeStop == 255

\* the ping tasks one sweep creates, one per host number i of range(255):
\*   [create_task(ping(prefix + str(i), get_hostname)) for i in range(255)]
SweepTasks(prefix, get_hostname) ==
    [prefix |-> prefix, hosts |-> Range(RangeStop), get_hostname |-> get_hostname]

\* the ip argument of the ping task of host number i: prefix + str(i)
TaskIp(sweep_tasks, i) == sweep_tasks.prefix \o Str(i)

\* the addresses the tasks of a sweep probe
ProbedAddresses(sweep_tasks) == {TaskIp(sweep_tasks, i) : i \in sweep_tasks.hosts}

\* no sweep in flight
NoTasks == [prefix |-> <<>>, hosts |-> {}, get_hostname |-> FALSE]

\* NetworkScanner.ping: what it returns for the bytes the process wrote
PingReturn(stdout, stderr) ==
    IF stderr # <<>> THEN stderr
    ELSE IF stdout # <<>> THEN stdout
    ELSE None

\* the filter of scan_network: the lines of the cache text that contain prefix
ScanFilter(arpa, prefix) ==
    LET lines == Split(arpa, "\n")
    IN  SelectSeq(lines, LAMBDA x : Contains(prefix, x))

\* ------------------------------------------------------------ strategies
\* a faulty variant of IpOnNetwork: the IP must be a whole line of the text
IpOnNetwork_WholeLine(strategy_ip, arpa) ==
    IF ~Truthy(strategy_ip) THEN FALSE
    ELSE \E k \in 1..Len(Split(arpa, "\n")) : Split(arpa, "\n")[k] = strategy_ip

\* IpScanStrategy.on_network, given the text `arp -a` printed
IpOnNetwork(strategy_ip, arpa) ==
    IF ~Truthy(strategy_ip) THEN FALSE
    ELSE Contains(strategy_ip, arpa)

\* MacScanStrategy.on_network, given the text `arp -a` printed
MacOnNetwork(strategy_mac, arpa) ==
    IF ~Truthy(strategy_mac) THEN FALSE
    ELSE Contains(strategy_mac, arpa)

\* `self.hostname in x` raises TypeError when x is None or hostname is None
InRaises(strategy_hostname, x) == x = None \/ strategy_hostname = None

\* any(self.hostname in x for x in ping_output): the first element on which
\* `in` raises or is true decides; "False" when there is none
AnyHostnameIn(strategy_hostname, outputs) ==
    LET stops == {k \in 1..Len(outputs) :
                     \/ InRaises(strategy_hostname, outputs[k])
                     \/ Contains(strategy_hostname, outputs[k])}
        first == CHOOSE k \in stops : \A j \in stops : k <= j
    IN  IF stops = {} THEN "False"
        ELSE IF InRaises(strategy_hostname, outputs[first]) THEN "TypeError"
        ELSE "True"

\* HostnameScanStrategy.on_network after the gather: "True", "False" or
\* "TypeError"
HostnameOnNetwork(strategy_hostname, outputs) ==
    AnyHostnameIn(strategy_hostname, outputs)

\* ----------------------------------------------------------- environment
\* the targets a run may be constructed with (ip, mac, hostname), as in
\* NetworkScanner(ip=..., mac=..., hostname=...)
TargetIp == <<"1",".","2",".","3",".","4">>
TargetMac == <<"A","B",":","0","1">>
TargetHostname == <<"P","I">>
Targets ==
    { [ip |-> TargetIp, mac |-> None,      hostname |-> None],
      [ip |-> None,     mac |-> None,      hostname |-> TargetHostname],
      [ip |-> TargetIp, mac |-> TargetMac, hostname |-> TargetHostname] }

\* texts `arp -a` may print: without and with the target's entry
ArpAbsent == <<"9",".","9",".","9",".","9"," ","f","f","\n","1",".","2",".","3",".","1"," ","c","c","\n">>
ArpPresent == <<"9",".","9",".","9",".","9"," ","f","f","\n","1",".","2",".","3",".","4"," ","a","b","-","0","1","\n">>
ArpTables == {ArpAbsent, ArpPresent}

\* bytes a ping process may write to stdout and to stderr
Stdouts == {<<>>, <<"x"," ","P","I"," ","y">>, <<"p","i">>}
Stderrs == {<<>>, <<"e","r","r">>}

\* the hosts whose probe is scheduled on its own, and the unit that stands
\* for the probes of all the other hosts of the sweep
WatchedOrder == <<47, 0, 254, 1>>
Watched == {WatchedOrder[k] : k \in 1..NumWatched}
RestUnit == RangeStop
Units == Watched \cup {RestUnit}

\* a probe task that has not returned yet
Running == <<"running">>

\* what asyncio.gather returns: the results in task order (the k-th task is
\* the one of host number k - 1)
GatherList(out) ==
    [k \in 1..RangeStop |->
        IF (k - 1) \in Watched THEN out[k - 1] ELSE out[RestUnit]]

\* ------------------------------------------------------------------ state
VARIABLES
    ip, _mac, hostname,     \* the target given to NetworkScanner.__init__
    strategy,               \* "ip", "mac" or "hostname": the strategy class
    cb, cb_on_change_only,  \* arguments of monitor (cb: a callback is given)
    pc,                     \* where the monitor coroutine is
    state_is_connected,     \* "None", "True" or "False"
    tasks,                  \* the ping calls of the sweep in flight
    ping_output,            \* per scheduling unit: Running or ping's result
                            \* (the strategy's gathered list until the next sweep)
    snapshot,               \* what scan_network returned in this tick
    arpa,                   \* the cache text the strategy read in this tick
    on_net,                 \* what on_network returned in this tick
    tick,                   \* iterations of the loop started
    evals,                  \* on_network's results, one per tick
    calls,                  \* the callback invocations, in order
    crash,                  \* the exception that ended the loop
    norm                    \* successive values of the mac property

target == <<ip, _mac, hostname, strategy, cb, cb_on_change_only>>
sweep == <<tasks, ping_output>>
vars == <<ip, _mac, hostname, strategy, cb, cb_on_change_only, pc,
          state_is_connected, tasks, ping_output, snapshot, arpa, on_net,
          tick, evals, calls, crash, norm>>

\* the state after NetworkScanner(...) is constructed and before monitor runs
Init ==
    /\ \E t \in Targets : ip = t.ip /\ _mac = t.mac /\ hostname = t.hostname
    /\ strategy \in {"ip", "mac", "hostname"}
    /\ cb \in BOOLEAN
    /\ cb_on_change_only \in BOOLEAN
    /\ pc = "idle"
    /\ state_is_connected = "None"
    /\ tasks = NoTasks
    /\ ping_output = <<>>
    /\ snapshot = None
    /\ arpa = None
    /\ on_net = "None"
    /\ tick = 0
    /\ evals = <<>>
    /\ calls = <<>>
    /\ crash = "none"
    /\ norm = <<>>

\* the fields the strategy objects bind at construction
IpScanStrategy_ip == Or(None, ip)
MacScanStrategy_mac == Or(None, NetworkScanner_mac(_mac))
HostnameScanStrategy_hostname == Or(None, hostname)
HostnameScanStrategy_prefix == NetworkScanner_prefix(ip)

\* a faulty variant of AllDone: the gather is not awaited
AllDone_NotAwaited == TRUE

\* `await asyncio.gather(*tasks)` has returned: every task of the sweep is done
AllDone == \A u \in Units : ping_output[u] # Running

\* ---------------------------------------------------------------- actions
\* a faulty variant of MonitorTick: cb is not awaited, the loop goes on while
\* the callback runs
MonitorTick_CallbackNotAwaited ==
    /\ pc \in {"idle", "sleep", "callback"}
    /\ tick < MaxTicks
    /\ tick' = tick + 1
    /\ tasks' = SweepTasks(NetworkScanner_prefix(ip), FALSE)
    /\ ping_output' = [u \in Units |-> Running]
    /\ snapshot' = None
    /\ arpa' = None
    /\ on_net' = "None"
    /\ pc' = "scan_gather"
    /\ UNCHANGED <<target, state_is_connected, evals, calls, crash, norm>>

\* monitor, top of the loop: scan_network creates its 255 ping tasks and
\* awaits the gather
MonitorTick ==
    /\ pc \in {"idle", "sleep"}
    /\ tick < MaxTicks
    /\ tick' = tick + 1
    /\ tasks' = SweepTasks(NetworkScanner_prefix(ip), FALSE)
    /\ ping_output' = [u \in Units |-> Running]
    /\ snapshot' = None
    /\ arpa' = None
    /\ on_net' = "None"
    /\ pc' = "scan_gather"
    /\ UNCHANGED <<target, state_is_connected, evals, calls, crash, norm>>

\* ping: one unit's process ends and ping returns
Ping(u) ==
    /\ pc \in {"scan_gather", "host_gather"}
    /\ ping_output[u] = Running
    /\ \E stdout \in Stdouts, stderr \in Stderrs :
          ping_output' = [ping_output EXCEPT ![u] = PingReturn(stdout, stderr)]
    /\ UNCHANGED <<target, pc, state_is_connected, tasks, snapshot, arpa,
                   on_net, tick, evals, calls, crash, norm>>

\* ping: create_subprocess_shell raises; gather re-raises it in the awaiting
\* coroutine, which ends the loop
PingRaise(u) ==
    /\ pc \in {"scan_gather", "host_gather"}
    /\ ping_output[u] = Running
    /\ pc' = "crashed"
    /\ crash' = "probe"
    /\ UNCHANGED <<target, state_is_connected, sweep, snapshot, arpa, on_net,
                   tick, evals, calls, norm>>

\* scan_network after the gather: query the cache and filter by prefix
ScanCapture ==
    /\ pc = "scan_gather"
    /\ AllDone
    /\ \E text \in ArpTables :
          snapshot' = ScanFilter(text, NetworkScanner_prefix(ip))
    /\ tasks' = NoTasks
    /\ ping_output' = <<>>
    /\ pc' = "on_network"
    /\ UNCHANGED <<target, state_is_connected, arpa, on_net, tick, evals,
                   calls, crash, norm>>

\* scan_network after the gather: check_output raises
ScanCaptureFails ==
    /\ pc = "scan_gather"
    /\ AllDone
    /\ tasks' = NoTasks
    /\ ping_output' = <<>>
    /\ pc' = "crashed"
    /\ crash' = "arp"
    /\ UNCHANGED <<target, state_is_connected, snapshot, arpa, on_net, tick,
                   evals, calls, norm>>

\* IpScanStrategy.on_network: False without an IP, else query the cache
IpStrategyOnNetwork(tables) ==
    /\ pc = "on_network"
    /\ strategy = "ip"
    /\ \E text \in tables :
          /\ arpa' = IF Truthy(IpScanStrategy_ip) THEN text ELSE None
          /\ on_net' = IF IpOnNetwork(IpScanStrategy_ip, text)
                       THEN "True" ELSE "False"
          /\ evals' = Append(evals, IpOnNetwork(IpScanStrategy_ip, text))
    /\ pc' = "decide"
    /\ UNCHANGED <<target, state_is_connected, sweep, snapshot, tick, calls,
                   crash, norm>>

\* MacScanStrategy.on_network: False without a MAC, else query the cache
MacStrategyOnNetwork(tables) ==
    /\ pc = "on_network"
    /\ strategy = "mac"
    /\ \E text \in tables :
          /\ arpa' = IF Truthy(MacScanStrategy_mac) THEN text ELSE None
          /\ on_net' = IF MacOnNetwork(MacScanStrategy_mac, text)
                       THEN "True" ELSE "False"
          /\ evals' = Append(evals, MacOnNetwork(MacScanStrategy_mac, text))
    /\ pc' = "decide"
    /\ UNCHANGED <<target, state_is_connected, sweep, snapshot, tick, calls,
                   crash, norm>>

\* the field the cache-reading strategy matches on
CacheStrategyField ==
    IF strategy = "ip" THEN IpScanStrategy_ip ELSE MacScanStrategy_mac

\* Ip/MacScanStrategy.on_network: check_output raises
CacheStrategyFails ==
    /\ pc = "on_network"
    /\ strategy \in {"ip", "mac"}
    /\ Truthy(CacheStrategyField)
    /\ pc' = "crashed"
    /\ crash' = "arp"
    /\ UNCHANGED <<target, state_is_connected, sweep, snapshot, arpa, on_net,
                   tick, evals, calls, norm>>

\* HostnameScanStrategy.on_network: create its own 255 ping tasks with
\* get_hostname and await the gather
HostnameStrategyStart ==
    /\ pc = "on_network"
    /\ strategy = "hostname"
    /\ tasks' = SweepTasks(HostnameScanStrategy_prefix, TRUE)
    /\ ping_output' = [u \in Units |-> Running]
    /\ pc' = "host_gather"
    /\ UNCHANGED <<target, state_is_connected, snapshot, arpa, on_net, tick,
                   evals, calls, crash, norm>>

\* a faulty variant of HostnameStrategyGathered: it returns True as soon as one
\* finished probe shows the hostname, the other probes still running
HostnameStrategyGathered_EarlyExit ==
    /\ pc = "host_gather"
    /\ \E u \in Units : /\ ping_output[u] \notin {Running, None}
                        /\ HostnameScanStrategy_hostname # None
                        /\ Contains(HostnameScanStrategy_hostname, ping_output[u])
    /\ pc' = "decide"
    /\ on_net' = "True"
    /\ evals' = Append(evals, TRUE)
    /\ tasks' = NoTasks
    /\ UNCHANGED <<target, state_is_connected, ping_output, snapshot, arpa,
                   tick, calls, crash, norm>>

\* HostnameScanStrategy.on_network after the gather: any(hostname in x ...)
HostnameStrategyGathered ==
    /\ pc = "host_gather"
    /\ AllDone
    /\ LET r == HostnameOnNetwork(HostnameScanStrategy_hostname,
                                  GatherList(ping_output))
       IN  IF r = "TypeError"
           THEN /\ pc' = "crashed"
                /\ crash' = "TypeError"
                /\ UNCHANGED <<on_net, evals>>
           ELSE /\ pc' = "decide"
                /\ on_net' = r
                /\ evals' = Append(evals, r = "True")
                /\ crash' = crash
    /\ tasks' = NoTasks
    /\ UNCHANGED <<target, state_is_connected, ping_output, snapshot, arpa,
                   tick, calls, norm>>

\* a faulty variant of FireWhenPresent: the previous state is ignored
FireWhenPresent_IgnoresState(callback, state, change_only) == callback

\* `cb and (not state_is_connected or not cb_on_change_only)`
FireWhenPresent(callback, state, change_only) ==
    callback /\ (state # "True" \/ ~change_only)

\* a faulty variant of FireWhenAbsent: fires on a change only, whatever
\* the mode
FireWhenAbsent_ChangeOnly(callback, state, change_only) ==
    callback /\ state = "True"

\* a faulty variant of FireWhenAbsent: the previous state is ignored
FireWhenAbsent_IgnoresState(callback, state, change_only) == callback

\* `cb and (state_is_connected or not cb_on_change_only)`
FireWhenAbsent(callback, state, change_only) ==
    callback /\ (state = "True" \/ ~change_only)

\* the arguments of cb on a tick that found the target
PresentPayload ==
    [ip |-> ip, mac |-> NetworkScanner_mac(_mac), hostname |-> hostname]

\* the arguments of cb on a tick that did not
AbsentPayload == [ip |-> None, mac |-> None, hostname |-> None]

\* monitor after on_network returned: call cb, or assign the state and sleep
Decide ==
    /\ pc = "decide"
    /\ IF on_net = "True"
       THEN IF FireWhenPresent(cb, state_is_connected, cb_on_change_only)
            THEN /\ calls' = Append(calls, [tick |-> tick, args |-> PresentPayload])
                 /\ pc' = "callback"
                 /\ UNCHANGED state_is_connected
            ELSE /\ state_is_connected' = "True"
                 /\ pc' = "sleep"
                 /\ UNCHANGED calls
       ELSE IF FireWhenAbsent(cb, state_is_connected, cb_on_change_only)
            THEN /\ calls' = Append(calls, [tick |-> tick, args |-> AbsentPayload])
                 /\ pc' = "callback"
                 /\ UNCHANGED state_is_connected
            ELSE /\ state_is_connected' = "False"
                 /\ pc' = "sleep"
                 /\ UNCHANGED calls
    /\ UNCHANGED <<target, sweep, snapshot, arpa, on_net, tick, evals, crash,
                   norm>>

\* a faulty variant of CallbackReturn: the state is not assigned after cb
CallbackReturn_NoAssign ==
    /\ pc = "callback"
    /\ pc' = "sleep"
    /\ UNCHANGED <<target, state_is_connected, sweep, snapshot, arpa, on_net,
                   tick, evals, calls, crash, norm>>

\* cb returns: assign the state and sleep
CallbackReturn ==
    /\ pc = "callback"
    /\ state_is_connected' = on_net
    /\ pc' = "sleep"
    /\ UNCHANGED <<target, sweep, snapshot, arpa, on_net, tick, evals, calls,
                   crash, norm>>

\* a faulty variant of CallbackRaise: the state was assigned before cb was
\* awaited
CallbackRaise_StateAssigned ==
    /\ pc = "callback"
    /\ pc' = "crashed"
    /\ crash' = "callback"
    /\ state_is_connected' = on_net
    /\ UNCHANGED <<target, sweep, snapshot, arpa, on_net, tick, evals, calls,
                   norm>>

\* cb raises: the exception leaves monitor
CallbackRaise ==
    /\ pc = "callback"
    /\ pc' = "crashed"
    /\ crash' = "callback"
    /\ UNCHANGED <<target, state_is_connected, sweep, snapshot, arpa, on_net,
                   tick, evals, calls, norm>>

Next ==
    \/ MonitorTick
    \/ \E u \in Units : Ping(u)
    \/ \E u \in Units : PingRaise(u)
    \/ ScanCapture
    \/ ScanCaptureFails
    \/ IpStrategyOnNetwork(ArpTables)
    \/ MacStrategyOnNetwork(ArpTables)
    \/ CacheStrategyFails
    \/ HostnameStrategyStart
    \/ HostnameStrategyGathered
    \/ Decide
    \/ CallbackReturn
    \/ CallbackRaise

Spec == Init /\ [][Next]_vars

\* ------------------------------------------- the pure functions on inputs
\* all strings of at most n characters of an alphabet
Strings(alphabet, n) == UNION {[1..k -> alphabet] : k \in 0..n}

\* characters of the IP strings and of the cache texts drawn as inputs
IpAlphabet == {"1", "."}
ArpAlphabet == {"1", ".", "\n"}
ArpTexts == Strings(ArpAlphabet, MaxArpLen)

\* a scanner with only an IP, in its first tick, scan_network has returned
InitIp ==
    /\ ip \in Strings(IpAlphabet, MaxIpLen) \ {<<>>}
    /\ _mac = None
    /\ hostname = None
    /\ strategy = "ip"
    /\ cb = FALSE
    /\ cb_on_change_only = FALSE
    /\ pc = "on_network"
    /\ state_is_connected = "None"
    /\ tasks = NoTasks
    /\ ping_output = <<>>
    /\ snapshot = <<>>
    /\ arpa = None
    /\ on_net = "None"
    /\ tick = 1
    /\ evals = <<>>
    /\ calls = <<>>
    /\ crash = "none"
    /\ norm = <<>>

\* IpScanStrategy.on_network on every cache text of the input alphabet
IpSpec == InitIp /\ [][IpStrategyOnNetwork(ArpTexts)]_vars

\* characters of the hardware addresses drawn as inputs: both letter cases
\* and both delimiters
MacAlphabet == {"A", "b", ":", "-"}

\* a scanner constructed with any hardware address, or none
InitMac ==
    /\ _mac \in Strings(MacAlphabet, MaxMacLen) \cup {None}
    /\ ip = None
    /\ hostname = None
    /\ strategy = "mac"
    /\ cb = FALSE
    /\ cb_on_change_only = FALSE
    /\ pc = "idle"
    /\ state_is_connected = "None"
    /\ tasks = NoTasks
    /\ ping_output = <<>>
    /\ snapshot = None
    /\ arpa = None
    /\ on_net = "None"
    /\ tick = 0
    /\ evals = <<>>
    /\ calls = <<>>
    /\ crash = "none"
    /\ norm = <<>>

\* read the mac property: first of the scanner, then of a scanner constructed
\* with the value read before
ReadMac ==
    /\ Len(norm) < 2
    /\ norm' = Append(norm, NetworkScanner_mac(IF norm = <<>> THEN _mac
                                               ELSE norm[Len(norm)]))
    /\ UNCHANGED <<target, pc, state_is_connected, sweep, snapshot, arpa,
                   on_net, tick, evals, calls, crash>>

MacSpec == InitMac /\ [][ReadMac]_vars

\* ------------------------------------------------------------ the claims
\* tick k has made its transition decision
Decided(k) ==
    \/ k < tick
    \/ k = tick /\ pc \in {"callback", "sleep"}
    \/ k = tick /\ pc = "crashed" /\ crash = "callback"

\* the callback was invoked in tick k
FiredOn(k) == \E i \in 1..Len(calls) : calls[i].tick = k

\* the invocations of the callback in tick k
CallsOn(k) == {i \in 1..Len(calls) : calls[i].tick = k}

ChangeOnlyMode == cb /\ cb_on_change_only
FireAlwaysMode == cb /\ ~cb_on_change_only

\* C1: in change-only mode, from the initial Unknown state, the evaluate
\* results [false, false, true, true, false] make the callback fire exactly
\* 3 times: on tick 1, on tick 3 and on tick 5.
C1_ThreeCallbacks ==
    (ChangeOnlyMode /\ evals = <<FALSE, FALSE, TRUE, TRUE, FALSE>> /\ Decided(5))
        => /\ Len(calls) = 3
           /\ FiredOn(1) /\ FiredOn(3) /\ FiredOn(5)

\* C2: in change-only mode, on every tick after the first the callback
\* fires if and only if the tick's evaluate result differs from the previous
\* tick's result; it never fires on a tick that leaves the state unchanged.
C2_FiresIffChanged ==
    ChangeOnlyMode =>
        \A k \in 2..Len(evals) :
            Decided(k) => (FiredOn(k) <=> evals[k] # evals[k - 1])

C2_Witness ==
    /\ ChangeOnlyMode
    /\ Len(evals) >= 4
    /\ Decided(4)
    /\ evals[1] = FALSE /\ evals[2] = TRUE /\ evals[3] = TRUE /\ evals[4] = FALSE
    /\ FiredOn(2) /\ ~FiredOn(3) /\ FiredOn(4)

\* the normalised form of TargetMac
TargetMacNormal == <<"a","b","-","0","1">>

\* C3: in fire-always mode the callback fires exactly once on every tick,
\* with the target's (ip, normalised mac, hostname) on a tick whose evaluate
\* result is true and (None, None, None) on a tick whose result is false; so
\* n ticks fire it exactly n times (a 5-tick sequence exactly 5 times).
C3_FireAlways ==
    FireAlwaysMode =>
        /\ \A k \in 1..Len(evals) :
              Decided(k) =>
                 /\ Cardinality(CallsOn(k)) = 1
                 /\ \A i \in CallsOn(k) :
                       calls[i].args =
                          IF evals[k]
                          THEN [ip |-> ip,
                                mac |-> IF _mac = TargetMac THEN TargetMacNormal
                                        ELSE None,
                                hostname |-> hostname]
                          ELSE [ip |-> None, mac |-> None, hostname |-> None]
        /\ Len(calls) = Cardinality({k \in 1..tick : Decided(k)})

C3_Witness ==
    /\ FireAlwaysMode
    /\ _mac = TargetMac
    /\ evals = <<FALSE, FALSE, TRUE, TRUE, FALSE>>
    /\ Decided(5)
    /\ Len(calls) = 5
    /\ calls[3].args.mac = TargetMacNormal
    /\ calls[5].args.mac = None

\* C4: a sweep (scan_network) over a non-empty prefix P issues exactly 254
\* probe calls, one to each address P+"1" .. P+"254", and none to P+"0".
C4_Sweep254 ==
    (pc = "scan_gather" /\ NetworkScanner_prefix(ip) # <<>>) =>
        /\ Cardinality(tasks.hosts) = 254
        /\ ProbedAddresses(tasks) =
              {NetworkScanner_prefix(ip) \o Str(k) : k \in 1..254}
        /\ NetworkScanner_prefix(ip) \o <<"0">> \notin ProbedAddresses(tasks)

\* C5: when the target has no IP (the prefix is the empty string) a sweep
\* issues zero probes and returns an empty snapshot.
C5_EmptyPrefixNoSweep ==
    NetworkScanner_prefix(ip) = <<>> =>
        /\ tasks = NoTasks
        /\ snapshot # None => snapshot = <<>>

\* HostnameScanStrategy.on_network has ended, by returning or by raising
HostnameEvaluated ==
    /\ strategy = "hostname"
    /\ \/ pc \in {"decide", "callback", "sleep"}
       \/ pc = "crashed" /\ crash \in {"TypeError", "callback"}

\* C6: HostnameScanStrategy.on_network returns true if and only if at least
\* one probe output of its sweep contains the target hostname (case
\* sensitive), for every combination of per-probe outcomes: stdout text,
\* error text, or no output at all.
C6_HostnameIff ==
    (HostnameEvaluated /\ Truthy(hostname)) =>
        /\ crash # "TypeError"
        /\ on_net = "True" <=>
              \E u \in Units : /\ ping_output[u] # None
                               /\ Contains(hostname, ping_output[u])

\* the target has no value for the field the chosen strategy matches on
MissingField ==
    \/ strategy = "ip" /\ ~Truthy(ip)
    \/ strategy = "mac" /\ ~Truthy(_mac)
    \/ strategy = "hostname" /\ ~Truthy(hostname)

\* C7: for every strategy, when the target has no value for the field the
\* strategy matches on, evaluate returns false and does not raise.
C7_MissingFieldFalse ==
    MissingField =>
        /\ crash # "TypeError"
        /\ pc \in {"decide", "callback", "sleep"} => on_net = "False"

\* C8: for a target with only an IP set, IpScanStrategy.on_network returns
\* true if and only if the IP is a substring of some line of the cache text
\* it read.
C8_IpSubstringOfLine ==
    (strategy = "ip" /\ pc = "decide" /\ Truthy(ip)
        /\ _mac = None /\ hostname = None) =>
        (on_net = "True" <=>
            \E k \in 1..Len(Split(arpa, "\n")) :
                Contains(ip, Split(arpa, "\n")[k]))

C8_Witness ==
    /\ strategy = "ip" /\ pc = "decide"
    /\ on_net = "True"
    /\ Len(ip) = 2
    /\ Len(Split(arpa, "\n")) >= 2
    /\ \A k \in 1..Len(Split(arpa, "\n")) : Split(arpa, "\n")[k] # ip

\* C9: the mac property is idempotent, and for every address, whatever its
\* letter case and delimiter, its value is lower-case and dash-delimited.
C9_MacNormalForm ==
    /\ Len(norm) = 2 => norm[2] = norm[1]
    /\ (Len(norm) >= 1 /\ Truthy(_mac)) =>
          /\ Len(norm[1]) = Len(_mac)
          /\ \A i \in 1..Len(norm[1]) :
                /\ norm[1][i] \notin {UpperCase[j] : j \in 1..Len(UpperCase)}
                /\ norm[1][i] # ":"
                /\ _mac[i] \in {":", "-"} => norm[1][i] = "-"

C9_Witness ==
    /\ _mac = <<"A", ":", "b">>
    /\ norm = << <<"a", "-", "b">>, <<"a", "-", "b">> >>

\* C10: the monitor loop has no terminal state: unless a probe, a cache
\* query or the callback fails, the loop never ends, whatever the probes
\* report.
C10_NoTerminalState ==
    pc = "crashed" => crash \in {"probe", "arp", "callback"}

\* no probe of a sweep is in flight
NoneRunning == \A u \in DOMAIN ping_output : ping_output[u] # Running

\* C11: within every tick the steps are strictly ordered and ticks never
\* overlap: evaluate does not begin until every probe of the tick's sweep
\* has completed and the cache has been read, the transition decision and
\* the callback do not begin until evaluate has completed, and the next
\* tick's sweep does not begin until the callback and the sleep have
\* completed.
C11_StepOrder ==
    [][ /\ (pc # "on_network" /\ pc' = "on_network") =>
              /\ pc = "scan_gather" /\ NoneRunning
              /\ snapshot' # None
        /\ (pc = "on_network" /\ pc' # "on_network") =>
              /\ snapshot # None
              /\ tasks = NoTasks
        /\ (pc # "decide" /\ pc' = "decide") =>
              /\ pc \in {"on_network", "host_gather"} /\ NoneRunning
              /\ on_net' # "None" /\ Len(evals') = tick
        /\ (pc # "callback" /\ pc' = "callback") =>
              /\ pc = "decide" /\ on_net # "None"
        /\ tick' # tick =>
              /\ pc \in {"idle", "sleep"} /\ NoneRunning
              /\ tick' = tick + 1
              /\ Len(evals) = tick
              /\ tick > 0 => state_is_connected = on_net
      ]_vars

C11_Witness ==
    /\ tick = 2 /\ pc = "host_gather"
    /\ Len(calls) = 1 /\ calls[1].tick = 1
    /\ \E u \in Units : ping_output[u] = Running
    /\ \E u \in Units : ping_output[u] # Running

\* C12: the sweep is a full-batch barrier: under every interleaving of the
\* probes, the cache is queried, and the sweep returns, only after all probes
\* of the batch have completed.
C12_SweepBarrier ==
    [][ (pc = "scan_gather" /\ (snapshot' # snapshot \/ crash' = "arp")) =>
            /\ DOMAIN ping_output = Units
            /\ \A u \in Units : ping_output[u] # Running
      ]_vars

C12_Witness ==
    /\ pc = "on_network" /\ tick = 1
    /\ snapshot # None /\ snapshot # <<>>

\* C13: a failure of the cache query during a tick is fatal for that tick
\* only: the tick counts as an empty snapshot (target absent), the monitor
\* loop does not crash and later ticks still run.
C13_CacheFailureNotFatal == crash # "arp"

\* C14: a failure inside a single probe (its process writes an error or no
\* output, or the probe call itself raises) never passes the batch boundary:
\* the sweep or hostname evaluation still completes with a result and the
\* monitor loop continues.
C14_ProbeFailureContained ==
    ~MissingField => crash \notin {"probe", "TypeError"}

\* the target's field is in some line of the snapshot scan_network returned
InSnapshot(field) ==
    \E k \in 1..Len(snapshot) : Contains(field, snapshot[k])

\* C15: under the IP and MAC strategies the presence decision of a tick is
\* made on the snapshot the sweep captured in that tick, even if the cache
\* changes after the capture: the decision equals membership of the target
\* in that snapshot, and no other cache text is evaluated in the tick.
C15_DecisionOnSweepSnapshot ==
    (strategy \in {"ip", "mac"} /\ ~MissingField
        /\ pc \in {"decide", "callback", "sleep"}) =>
        /\ on_net = "True" <=> InSnapshot(CacheStrategyField)
        /\ arpa # None => ScanFilter(arpa, NetworkScanner_prefix(ip)) = snapshot

\* Python's str(bool)
PyBool(b) == IF b THEN "True" ELSE "False"

\* the last tick that ran to its sleep
LastCompleted == IF pc = "sleep" THEN tick ELSE tick - 1

\* C16: the presence state is Unknown only until the first tick's transition
\* decision has been carried out; after any completed tick it is Present or
\* Absent, never Unknown again, and equals the evaluate result of the most
\* recently completed tick.  Only the monitor loop's decision changes it.
C16_PresenceState ==
    /\ [](IF LastCompleted <= 0 THEN state_is_connected = "None"
          ELSE state_is_connected = PyBool(evals[LastCompleted]))
    /\ [][state_is_connected' # state_is_connected =>
             /\ pc \in {"decide", "callback"}
             /\ pc' = "sleep"
             /\ state_is_connected' \in {"True", "False"}]_vars

C16_Witness ==
    /\ tick = 3 /\ pc = "scan_gather"
    /\ evals = <<FALSE, TRUE>>
    /\ state_is_connected = "True"
    /\ Len(calls) = 2

\* the scheduling units whose probes are in flight
InFlight == {u \in DOMAIN ping_output : ping_output[u] = Running}

\* C17: no probe work is outstanding across ticks: wherever the monitor is
\* making its transition decision, awaiting the callback or sleeping, no
\* probe is in flight; and at most one probe batch is in flight at any time
\* (a batch is created only when no probe of an earlier one is running).
C17_NoOutstandingProbes ==
    /\ [](pc \in {"decide", "callback", "sleep"} =>
             /\ InFlight = {}
             /\ tasks = NoTasks)
    /\ [][(tasks' # tasks /\ tasks' # NoTasks) =>
             /\ InFlight = {}
             /\ tasks = NoTasks]_vars

C17_Witness ==
    /\ strategy = "hostname"
    /\ tick = 2 /\ pc = "callback"
    /\ DOMAIN ping_output = Units
    /\ InFlight = {}

\* the callback invocation i carries the target (not three None)
Populated(i) == calls[i].args # [ip |-> None, mac |-> None, hostname |-> None]

\* C18: in change-only mode consecutive callback invocations alternate in
\* kind: never two populated (present) ones without a null (absent) one
\* between them, never two null ones without a populated one between them.
C18_CallbacksAlternate ==
    ChangeOnlyMode =>
        \A i \in 1..(Len(calls) - 1) : Populated(i) # Populated(i + 1)

C18_Witness ==
    /\ ChangeOnlyMode
    /\ Len(calls) = 3
    /\ Populated(1) /\ ~Populated(2) /\ Populated(3)

\* C19: the callback is invoked at most once per tick and a failed
\* invocation is never retried; if the callback raises, the presence state
\* keeps the value it had before that tick and the loop runs no further
\* tick.
C19_CallbackFailure ==
    /\ [](/\ \A k \in 1..tick : Cardinality(CallsOn(k)) <= 1
          /\ crash = "callback" =>
                /\ pc = "crashed"
                /\ Cardinality(CallsOn(tick)) = 1
                /\ state_is_connected =
                      IF tick = 1 THEN "None" ELSE PyBool(evals[tick - 1]))
    /\ [][crash = "callback" => (tick' = tick /\ calls' = calls)]_vars

C19_Witness ==
    /\ crash = "callback"
    /\ tick = 2
    /\ evals = <<TRUE, FALSE>>
    /\ state_is_connected = "True"
    /\ Len(calls) = 2

====
